---- MODULE Spec2Model ----
(***************************************************************************)
(* Tokyo Drive (wshino/race): the application shell (js/main.js), the      *)
(* frame loop of SceneManager (js/scene.js) and the motion state of        *)
(* Vehicle (js/vehicle.js).                                                *)
(*                                                                         *)
(* Numbers are exact fixed-point values:                                   *)
(*   currentSpeed   in units of 1/SpeedDen km/h   (0.5 km/h),              *)
(*   deltaTime, now in ticks of TickSeconds s     (15 s),                  *)
(*   trackProgress  in units of 1/ProgressDen lap (1/240 lap),             *)
(* so that  currentSpeed / 3600 * deltaTime * 2  is the integer            *)
(* currentSpeed * deltaTime in progress units.  The floating-point         *)
(* rounding of the JavaScript numbers is not modelled.                     *)
(***************************************************************************)
EXTENDS Integers, Sequences, FiniteSets, TLC

\* ------------------------------------------------------------------ bounds
MaxTime == 2
MaxPending == 2
MaxSteps == 3
MaxDelta == 3
MaxLaps == 3
MaxParticles == 2
MaxCoord == 2

\* ------------------------------------------------------- program constants
maxSpeed == 120
SpeedDen == 2
acceleration == 1
SecondsPerHour == 3600
ProgressFactor == 2

TickSeconds == SecondsPerHour \div (maxSpeed * ProgressFactor)
ProgressDen == (SpeedDen * SecondsPerHour) \div (TickSeconds * ProgressFactor)
maxSpeedUnits == maxSpeed * SpeedDen
MaxDistance == MaxLaps * ProgressDen

VARIABLES
    \* TokyoDriveApp
    sceneManager, isPlaying,
    startScreenHidden, loadingScreenHidden, gameContainerHidden,
    delayPending, uiPending,
    \* SceneManager
    isRunning, oldTime, track, vehicle, pending,
    \* host
    hidden, now,
    \* history: the last handler run, the deltaTime and the speed before the
    \* latest updatePosition, the unwrapped sum of progress increments of the
    \* current Vehicle, the steps of the latest animate(), and the Vehicle and
    \* time at the latest stop()
    lastEvent, lastDelta, prevSpeed, distance, frameLog, atStop, stopTime,
    \* SceneManager.composer (non-null or not), the kinds of objects built by
    \* load() and not disposed, and the record of the latest onStartClick
    composer, live, lastLoad,
    \* a Track query, the particle pool of Effects, the vehicle/camera rig
    pathQuery, particles, material, rig

appVars == <<sceneManager, isPlaying, startScreenHidden, loadingScreenHidden,
             gameContainerHidden, delayPending, uiPending>>
smVars == <<isRunning, oldTime, track, pending>>
hostVars == <<hidden, now>>
histVars ==
    <<lastEvent, lastDelta, prevSpeed, distance, frameLog, atStop, stopTime>>
loadVars == <<composer, live, lastLoad>>
pureVars == <<pathQuery, particles, material, rig>>
vars == <<appVars, smVars, vehicle, hostVars, histVars, loadVars, pureVars>>

Min(a, b) == IF a < b THEN a ELSE b

\* ------------------------------------------------------------------ Vehicle
NoVehicle == [null |-> TRUE]

NewVehicle == [trackProgress |-> 0, currentSpeed |-> 0]

updatePositionNoCap(v, deltaTime) ==
    LET speed == v.currentSpeed + acceleration
        progress == v.trackProgress + speed * deltaTime
    IN  [trackProgress |-> IF progress > ProgressDen THEN progress - ProgressDen
                           ELSE progress,
         currentSpeed |-> speed]

updatePositionStalls(v, deltaTime) ==
    LET speed == IF v.currentSpeed + acceleration < maxSpeedUnits
                 THEN v.currentSpeed + acceleration ELSE v.currentSpeed
        progress == v.trackProgress + speed * deltaTime
    IN  [trackProgress |-> IF progress > ProgressDen THEN progress - ProgressDen
                           ELSE progress,
         currentSpeed |-> speed]

updatePositionScaled(v, deltaTime) ==
    LET speed == Min(maxSpeedUnits,
                     v.currentSpeed + acceleration * TickSeconds * deltaTime)
        progress == v.trackProgress + speed * deltaTime
    IN  [trackProgress |-> IF progress > ProgressDen THEN progress - ProgressDen
                           ELSE progress,
         currentSpeed |-> speed]

updatePosition(v, deltaTime) ==
    LET speed == IF v.currentSpeed < maxSpeedUnits
                 THEN v.currentSpeed + acceleration
                 ELSE v.currentSpeed
        progress == v.trackProgress + speed * deltaTime
    IN  [trackProgress |-> IF progress > ProgressDen THEN progress - ProgressDen
                           ELSE progress,
         currentSpeed |-> speed]

getSpeed(v) == IF v = NoVehicle THEN 0 ELSE v.currentSpeed

\* this.vehicle's fields (0 while no Vehicle is constructed)
currentSpeed == getSpeed(vehicle)

trackProgress == IF vehicle = NoVehicle THEN 0 ELSE vehicle.trackProgress

\* ------------------------------------------------------------ SceneManager
\* THREE.Clock as scene.js uses it: start() sets oldTime to the current time,
\* getDelta() returns the time since oldTime and moves oldTime to now.
clockStartKeep(old, t) == old

clockStart(old, t) == t

getDelta(old, t) == t - old

\* stop(): isRunning = false.
stopKeepsRunning(running) == running

stop(running) == FALSE

\* animate()'s guard: the body runs only while isRunning.
animateRunsAlways(running) == TRUE

animateRuns(running) == running

\* The render step of animate(): the composer when there is one.
renderStep(c) == IF c THEN "composer.render" ELSE "renderer.render"

\* The steps of one executed animate() body, in program order.
FrameStepsRenderEarly ==
    <<"updatePosition", "updateCamera", "effects", renderStep(composer),
      "environment">>

FrameSteps ==
    <<"updatePosition", "updateCamera", "effects", "environment",
      renderStep(composer)>>

\* The steps of n animate() callbacks run by one refresh: each callback runs
\* to its end before the next one is called.
RECURSIVE framesRun(_)
framesRun(n) == IF n = 0 THEN <<>> ELSE FrameSteps \o framesRun(n - 1)

\* n animate() calls in a row, the first with deltaTime dt, the others in the
\* same instant (getDelta() = 0 after the first call moved oldTime).
RECURSIVE animateTimes(_, _, _)
animateTimes(v, dt, n) ==
    IF n = 0 THEN v ELSE animateTimes(updatePosition(v, dt), 0, n - 1)

\* What load() leaves in this.vehicle / this.track when it ends at `outcome`:
\* the constructors run in the order environment, track, vehicle, effects,
\* post-processing, and a throwing step leaves the later fields as they were.
LoadOutcomes ==
    {"ok", "environment", "track", "vehicle", "effects", "postProcessing"}

loadVehicleKeep(old, outcome) ==
    IF outcome \in {"ok", "effects", "postProcessing"} /\ old = NoVehicle
    THEN NewVehicle ELSE old

loadVehicle(old, outcome) ==
    IF outcome \in {"ok", "effects", "postProcessing"} THEN NewVehicle ELSE old

loadTrack(old, outcome) ==
    IF outcome \in {"ok", "vehicle", "effects", "postProcessing"} THEN TRUE
    ELSE old

\* this.vehicle && this.track
canUpdate(v, t) == v # NoVehicle /\ t

\* The optional libraries as load() finds them: THREE.EffectComposer and
\* THREE.UnrealBloomPass defined or not, BufferGeometryUtils.mergeGeometries
\* working ("ok"), absent ("missing") or throwing ("throws").
Libs == [composer : BOOLEAN, bloom : BOOLEAN,
         merge : {"ok", "missing", "throws"}]

\* setupPostProcessing(): returns early without EffectComposer, adds the bloom
\* pass only when UnrealBloomPass is defined.
setupPostProcessingUnguarded(lib) ==
    IF lib.composer /\ lib.bloom THEN "done" ELSE "throws"

setupPostProcessing(lib) == IF ~lib.composer THEN "skipped" ELSE "done"

\* Track.createLaneMarkings(): the kinds of lane-marking meshes added to the
\* scene; merging is tried when mergeGeometries exists, and a throwing merge
\* falls back to createLaneMarkingsIndividual().
createLaneMarkings(merge) ==
    LET canMerge == merge # "missing"
    IN  IF canMerge
        THEN IF merge = "throws" THEN {"individual"} ELSE {"merged"}
        ELSE {"individual"}

\* The construction steps of load(), in program order.
LoadSteps == <<"environment", "track", "vehicle", "effects", "postProcessing">>

\* A step that throws by itself ("none": no step does; "manager": the
\* constructor of SceneManager does).
Faults == {"none", "manager"} \cup (LoadOutcomes \ {"ok"})

\* The libraries a load() ending at `fault` consults: the merge utility in
\* the Track constructor, the post-processing classes in the last step.
LibsFor(fault) ==
    {lib \in Libs :
        /\ fault \in {"manager", "environment", "track"} => lib.merge = "ok"
        /\ fault \notin {"none", "postProcessing"}
             => lib.composer /\ lib.bloom}

\* load(): the step at which construction ends, "ok" when it returns true.
load(fault, lib) ==
    IF fault # "none" THEN fault
    ELSE IF setupPostProcessing(lib) = "throws" THEN "postProcessing"
    ELSE "ok"

\* The objects whose constructor completed in a load() ending at `outcome`.
constructed(outcome) ==
    {LoadSteps[i] : i \in {j \in 1..4 :
        \A k \in 1..j : LoadSteps[k] # outcome}}

\* SceneManager.dispose(): releases the geometries and materials of the
\* vehicle and the particle system its fields refer to; Track.dispose()
\* leaves the lane markings and street lights, Environment has no dispose().
disposed(alive) == alive \ {"vehicle", "effects"}

\* this.composer after load()
loadComposer(old, outcome, lib) ==
    IF outcome = "ok" THEN {old \/ lib.composer}
    ELSE IF outcome = "postProcessing" THEN {old, old \/ lib.composer}
    ELSE {old}

\* onStartClick takes its catch branch when construction threw or load()
\* returned false.
startFailsOnlyManager(outcome) == outcome = "manager"

startFails(outcome) == outcome # "ok"

\* The catch branch of onStartClick: alert, loading hidden, start shown.
catchBranchKeepsLoading ==
    [alert |-> TRUE, startScreenHidden |-> TRUE, loadingScreenHidden |-> FALSE]

catchBranch ==
    [alert |-> TRUE, startScreenHidden |-> FALSE, loadingScreenHidden |-> TRUE]

NoLoad == [fault |-> "none", result |-> "none", alert |-> FALSE, lanes |-> {}]

\* Idle values of the variables the application specification leaves alone.
NoQuery == [t |-> 0, asked |-> FALSE]

NoRig == [built |-> FALSE]

NoMaterial == [none |-> TRUE]

\* --------------------------------------------------------------------- Init
InitApp ==
    /\ sceneManager = FALSE
    /\ isPlaying = FALSE
    /\ startScreenHidden = FALSE
    /\ loadingScreenHidden = TRUE
    /\ gameContainerHidden = TRUE
    /\ delayPending = FALSE
    /\ uiPending = 0
    /\ isRunning = FALSE
    /\ oldTime = 0
    /\ track = FALSE
    /\ vehicle = NoVehicle
    /\ pending = 0
    /\ hidden = FALSE
    /\ now = 0
    /\ lastEvent = "init"
    /\ lastDelta = 0
    /\ prevSpeed = 0
    /\ distance = 0
    /\ frameLog = <<>>
    /\ atStop = NoVehicle
    /\ stopTime = 0
    /\ composer = FALSE
    /\ live = {}
    /\ lastLoad = NoLoad

Init ==
    /\ InitApp
    /\ pathQuery = NoQuery
    /\ particles = <<>>
    /\ material = NoMaterial
    /\ rig = NoRig

\* History of n >= 1 updatePosition calls on v, the first with deltaTime dt.
Record(v, dt, n) ==
    /\ lastDelta' = IF n = 1 THEN dt ELSE 0
    /\ prevSpeed' = animateTimes(v, dt, n - 1).currentSpeed
    /\ distance' = distance + updatePosition(v, dt).currentSpeed * dt
    /\ frameLog' = framesRun(n)

\* SceneManager.start(): isRunning, clock.start(), one synchronous animate().
SceneStart ==
    /\ isRunning' = TRUE
    /\ oldTime' = clockStart(oldTime, now)
    /\ pending' = pending + 1
    /\ LET dt == getDelta(clockStart(oldTime, now), now)
       IN  IF canUpdate(vehicle, track)
           THEN /\ vehicle.currentSpeed < MaxSteps
                /\ vehicle' = updatePosition(vehicle, dt)
                /\ Record(vehicle, dt, 1)
           ELSE /\ vehicle' = vehicle
                /\ frameLog' = Tail(FrameSteps)
                /\ UNCHANGED <<lastDelta, prevSpeed, distance>>

\* ------------------------------------------------------------ TokyoDriveApp
\* onStartClick up to `await this.delay(1000)`: load() has no await inside, so
\* the click, the construction and the check of `loaded` run without any other
\* event in between.  A button is clicked only while its screen is shown and
\* the document is visible; `fault` is the step at which construction
\* throws by itself and `lib` the optional libraries found.
StartClick(fault, lib) ==
    LET outcome == IF fault = "manager" THEN "manager" ELSE load(fault, lib)
        failed == startFails(outcome)
    IN
    /\ ~hidden
    /\ ~startScreenHidden
    /\ fault = "manager" => ~sceneManager
    /\ lastEvent' = "startClick"
    /\ IF outcome = "manager"
       THEN \* new SceneManager() throws
            /\ UNCHANGED <<sceneManager, isRunning, oldTime, track, vehicle,
                           prevSpeed, distance, lastDelta, composer, live>>
            /\ lastLoad' = [fault |-> fault, result |-> outcome,
                            alert |-> failed /\ catchBranch.alert,
                            lanes |-> {}]
       ELSE /\ sceneManager' = TRUE
            /\ isRunning' = IF sceneManager THEN isRunning ELSE FALSE
            /\ oldTime' = oldTime
            /\ track' = loadTrack(track, outcome)
            /\ vehicle' = loadVehicle(vehicle, outcome)
            /\ IF vehicle' = vehicle
               THEN UNCHANGED <<prevSpeed, distance, lastDelta>>
               ELSE prevSpeed' = 0 /\ distance' = 0 /\ lastDelta' = 0
            /\ composer' \in loadComposer(composer, outcome, lib)
            /\ live' = live \cup constructed(outcome)
            /\ lastLoad' = [fault |-> fault, result |-> outcome,
                            alert |-> failed /\ catchBranch.alert,
                            lanes |-> IF "track" \in constructed(outcome)
                                      THEN createLaneMarkings(lib.merge)
                                      ELSE {}]
    /\ delayPending' = ~failed
    /\ startScreenHidden' = IF failed THEN catchBranch.startScreenHidden
                            ELSE TRUE
    /\ loadingScreenHidden' = IF failed THEN catchBranch.loadingScreenHidden
                              ELSE FALSE
    /\ UNCHANGED <<isPlaying, gameContainerHidden, uiPending, pending,
                   hostVars, frameLog, atStop, stopTime, pureVars>>

\* updateUI(): returns at once unless isPlaying, else writes the readout and
\* requests its next call.  The result is the number of requested updateUI
\* callbacks after one call made with `requested` others outstanding.
updateUI(playing, requested) == IF playing THEN requested + 1 ELSE requested

\* onStartClick after the delay: show the game, start the loop, isPlaying,
\* first updateUI() call.
DelayElapsed ==
    /\ delayPending
    /\ pending < MaxPending
    /\ uiPending < MaxPending
    /\ delayPending' = FALSE
    /\ loadingScreenHidden' = TRUE
    /\ gameContainerHidden' = FALSE
    /\ SceneStart
    /\ isPlaying' = TRUE
    /\ uiPending' = updateUI(TRUE, uiPending)
    /\ lastEvent' = "delay"
    /\ UNCHANGED <<sceneManager, startScreenHidden, track, hostVars, atStop,
                   stopTime, loadVars, pureVars>>

\* onStopClick
onStopClick ==
    /\ isRunning' = IF sceneManager THEN stop(isRunning) ELSE isRunning
    /\ isPlaying' = FALSE
    /\ gameContainerHidden' = TRUE
    /\ startScreenHidden' = FALSE
    /\ atStop' = vehicle
    /\ stopTime' = now
    /\ UNCHANGED <<sceneManager, loadingScreenHidden, delayPending, uiPending,
                   oldTime, track, vehicle, pending, hostVars, lastDelta, prevSpeed,
                   distance, frameLog, loadVars, pureVars>>

StopClick ==
    /\ ~hidden
    /\ ~gameContainerHidden
    /\ onStopClick
    /\ lastEvent' = "stopClick"

\* keydown listener: Escape calls onStopClick only while isPlaying.
escapeStopsWhenIdle(playing) == ~playing

escapeStops(playing) == playing

EscapeKey ==
    /\ ~hidden
    /\ lastEvent' = "escape"
    /\ IF escapeStops(isPlaying) THEN onStopClick
       ELSE UNCHANGED <<appVars, smVars, vehicle, hostVars, lastDelta,
                        prevSpeed, distance, frameLog, atStop, stopTime,
                        loadVars, pureVars>>

\* visibilitychange listener: acts only while isPlaying, on the manager.
visibilityActsAlways(playing, manager) == manager

visibilityActs(playing, manager) == playing /\ manager

VisibilityChange ==
    /\ hidden' = ~hidden
    /\ lastEvent' = IF hidden THEN "show" ELSE "hide"
    /\ IF visibilityActs(isPlaying, sceneManager)
       THEN IF hidden'
            THEN /\ isRunning' = stop(isRunning)
                 /\ atStop' = vehicle
                 /\ stopTime' = now
                 /\ UNCHANGED <<oldTime, pending, vehicle, lastDelta,
                                prevSpeed, distance, frameLog>>
            ELSE /\ pending < MaxPending
                 /\ SceneStart
                 /\ UNCHANGED <<atStop, stopTime>>
       ELSE UNCHANGED <<isRunning, oldTime, pending, vehicle, lastDelta,
                        prevSpeed, distance, frameLog, atStop, stopTime>>
    /\ UNCHANGED <<appVars, track, now, loadVars, pureVars>>

\* One display refresh: every callback requested before it runs once.  While
\* isRunning each animate callback requests the next one and runs the frame
\* body; while isPlaying each updateUI callback requests the next one.
\* Refreshes are not tied to visibility (a browser may throttle an inactive
\* tab rather than stop it).  MaxSteps bounds the frames one Vehicle gets.
AnimationFrame ==
    /\ pending > 0 \/ uiPending > 0
    /\ lastEvent' = "frame"
    /\ uiPending' = IF isPlaying THEN uiPending ELSE 0
    /\ IF pending > 0 /\ animateRuns(isRunning)
       THEN /\ pending' = pending
            /\ oldTime' = now
            /\ IF canUpdate(vehicle, track)
               THEN /\ vehicle.currentSpeed + pending <= MaxSteps
                    /\ vehicle' = animateTimes(vehicle, getDelta(oldTime, now),
                                               pending)
                    /\ Record(vehicle, getDelta(oldTime, now), pending)
               ELSE /\ vehicle' = vehicle
                    /\ frameLog' = Tail(FrameSteps)
                    /\ UNCHANGED <<lastDelta, prevSpeed, distance>>
       ELSE /\ pending' = 0
            /\ frameLog' = <<>>
            /\ UNCHANGED <<oldTime, vehicle, lastDelta, prevSpeed, distance>>
    /\ UNCHANGED <<sceneManager, isPlaying, startScreenHidden,
                   loadingScreenHidden, gameContainerHidden, delayPending,
                   isRunning, track, hostVars, atStop, stopTime, loadVars,
                   pureVars>>

\* window resize listener of SceneManager: camera aspect, renderer and
\* composer size.
ResizeResets ==
    /\ sceneManager
    /\ lastEvent' = "resize"
    /\ vehicle' = IF vehicle = NoVehicle THEN vehicle ELSE NewVehicle
    /\ UNCHANGED <<appVars, smVars, hostVars, lastDelta, prevSpeed,
                   distance, frameLog, atStop, stopTime, loadVars, pureVars>>

Resize ==
    /\ sceneManager
    /\ lastEvent' = "resize"
    /\ UNCHANGED <<appVars, smVars, vehicle, hostVars, lastDelta, prevSpeed,
                   distance, frameLog, atStop, stopTime, loadVars, pureVars>>

\* beforeunload listener: cleanup() -> sceneManager.dispose() -> stop().
\* The page may stay (a navigation that is cancelled or does not replace the
\* document), so the other handlers remain possible afterwards.
Unload ==
    /\ lastEvent' = "unload"
    /\ IF sceneManager
       THEN /\ isRunning' = stop(isRunning)
            /\ live' = disposed(live)
       ELSE UNCHANGED <<isRunning, live>>
    /\ UNCHANGED <<appVars, oldTime, track, pending, vehicle, hostVars,
                   lastDelta, prevSpeed, distance, frameLog, atStop, stopTime,
                   composer, lastLoad, pureVars>>

\* Time passes.
Tick ==
    /\ now < MaxTime
    /\ now' = now + 1
    /\ lastEvent' = "tick"
    /\ UNCHANGED <<appVars, smVars, vehicle, hidden, lastDelta, prevSpeed,
                   distance, frameLog, atStop, stopTime, loadVars, pureVars>>

Next ==
    \/ \E fault \in Faults : \E lib \in LibsFor(fault) : StartClick(fault, lib)
    \/ DelayElapsed
    \/ StopClick
    \/ EscapeKey
    \/ VisibilityChange
    \/ AnimationFrame
    \/ Tick

Spec == Init /\ [][Next]_vars

\* All optional libraries present.
AllLibs == [composer |-> TRUE, bloom |-> TRUE, merge |-> "ok"]

\* Display refreshes keep coming while callbacks are requested; the optional
\* libraries, which the loop does not depend on, are all present.
NextLoop ==
    \/ \E fault \in Faults : StartClick(fault, AllLibs)
    \/ DelayElapsed
    \/ StopClick
    \/ EscapeKey
    \/ VisibilityChange
    \/ AnimationFrame
    \/ Tick

FairSpec == Init /\ [][NextLoop]_vars /\ WF_vars(AnimationFrame)

\* The page with its window listeners (resize, beforeunload) as well, with
\* all optional libraries present.
NextPage ==
    \/ \E fault \in Faults : StartClick(fault, AllLibs)
    \/ DelayElapsed
    \/ StopClick
    \/ EscapeKey
    \/ VisibilityChange
    \/ AnimationFrame
    \/ Resize
    \/ Unload
    \/ Tick

SpecPage == Init /\ [][NextPage]_vars

\* onStartClick after the delay when SceneManager.start() throws (a frame
\* step of its animate() call fails): the game container is already shown,
\* isRunning is set and the next animate callback is requested before the
\* throw; the catch branch shows the alert and the start screen, and
\* isPlaying stays false.  `done` is the number of frame steps that
\* completed, `wrote` tells whether updatePosition wrote the motion state (it
\* does so before it places the vehicle, so a throwing call may have).
StartThrows(done, wrote) ==
    /\ delayPending
    /\ done >= 1 => wrote
    /\ pending < MaxPending
    /\ delayPending' = FALSE
    /\ loadingScreenHidden' = catchBranch.loadingScreenHidden
    /\ gameContainerHidden' = FALSE
    /\ startScreenHidden' = catchBranch.startScreenHidden
    /\ lastLoad' = [lastLoad EXCEPT !.alert = catchBranch.alert]
    /\ isRunning' = TRUE
    /\ oldTime' = clockStart(oldTime, now)
    /\ pending' = pending + 1
    /\ frameLog' = SubSeq(FrameSteps, 1, done)
    /\ IF wrote /\ canUpdate(vehicle, track)
       THEN /\ vehicle.currentSpeed < MaxSteps
            /\ vehicle' = updatePosition(vehicle, 0)
            /\ lastDelta' = 0
            /\ prevSpeed' = vehicle.currentSpeed
            /\ distance' = distance
       ELSE UNCHANGED <<vehicle, lastDelta, prevSpeed, distance>>
    /\ lastEvent' = "startThrows"
    /\ UNCHANGED <<sceneManager, isPlaying, uiPending, track, hostVars,
                   atStop, stopTime, composer, live, pureVars>>

NextStartFault ==
    \/ \E fault \in Faults : StartClick(fault, AllLibs)
    \/ DelayElapsed
    \/ \E done \in 0..(Len(FrameSteps) - 1), wrote \in BOOLEAN :
         StartThrows(done, wrote)
    \/ StopClick
    \/ EscapeKey
    \/ AnimationFrame

SpecStartFault == Init /\ [][NextStartFault]_vars

\* ---------------------------------------------- Vehicle.updatePosition alone
\* A constructed Vehicle driven by updatePosition calls with any deltaTime.
InitVehicle ==
    /\ sceneManager = TRUE
    /\ isPlaying = TRUE
    /\ startScreenHidden = TRUE
    /\ loadingScreenHidden = TRUE
    /\ gameContainerHidden = FALSE
    /\ delayPending = FALSE
    /\ uiPending = 0
    /\ isRunning = TRUE
    /\ oldTime = 0
    /\ track = TRUE
    /\ vehicle = NewVehicle
    /\ pending = 1
    /\ hidden = FALSE
    /\ now = 0
    /\ lastEvent = "init"
    /\ lastDelta = 0
    /\ prevSpeed = 0
    /\ distance = 0
    /\ frameLog = <<>>
    /\ atStop = NoVehicle
    /\ stopTime = 0
    /\ composer = FALSE
    /\ live = {}
    /\ lastLoad = NoLoad
    /\ pathQuery = NoQuery
    /\ particles = <<>>
    /\ material = NoMaterial
    /\ rig = NoRig

UpdatePositionCall(deltaTime) ==
    /\ distance + updatePosition(vehicle, deltaTime).currentSpeed * deltaTime
         <= MaxDistance
    /\ vehicle' = updatePosition(vehicle, deltaTime)
    /\ Record(vehicle, deltaTime, 1)
    /\ lastEvent' = "frame"
    /\ UNCHANGED <<appVars, smVars, hostVars, atStop, stopTime, loadVars,
                   pureVars>>

NextVehicle == \E deltaTime \in 0..MaxDelta : UpdatePositionCall(deltaTime)

SpecVehicle == InitVehicle /\ [][NextVehicle]_vars

\* The frame loop keeps calling updatePosition: frames that take no time or
\* one tick, and the loop never stops by itself.
FrameDeltas == {0, 1}

NextVehicleFrames ==
    \E deltaTime \in FrameDeltas : UpdatePositionCall(deltaTime)

FairSpecVehicle ==
    InitVehicle /\ [][NextVehicleFrames]_vars /\ WF_vars(NextVehicleFrames)

\* ------------------------------------------ Track.getPositionAt/getTangentAt
\* t and the curve parameter are in units of 1/ProgressDen lap.
\* JavaScript's % : the result has the sign of the dividend.
jsRemainder(a, d) == IF a >= 0 THEN a % d ELSE -((-a) % d)

\* The closed path of createPath(): getPointAt(u) and getTangentAt(u) take u
\* in [0, 1], u = 1 being the point u = 0 again.  Outside [0, 1] the curve
\* gives no point (NoPoint); the point one would get by wrapping is also
\* allowed as an outcome, the most favourable one.
NoPoint == [none |-> TRUE]

pathGetPointAt(u) ==
    IF 0 <= u /\ u <= ProgressDen THEN {[point |-> u % ProgressDen]}
    ELSE {NoPoint, [point |-> u % ProgressDen]}

pathGetTangentAt(u) ==
    IF 0 <= u /\ u <= ProgressDen THEN {[tangent |-> u % ProgressDen]}
    ELSE {NoPoint, [tangent |-> u % ProgressDen]}

getPositionAt(t) == pathGetPointAt(jsRemainder(t, ProgressDen))

getTangentAt(t) == pathGetTangentAt(jsRemainder(t, ProgressDen))

InitTrack ==
    /\ InitApp
    /\ pathQuery \in {[t |-> t, asked |-> FALSE] : t \in -MaxDistance..MaxDistance}
    /\ particles = <<>>
    /\ material = NoMaterial
    /\ rig = NoRig

\* getPositionAt(t) and getPositionAt(t + 1) for the drawn t.
GetPositionAt ==
    /\ ~pathQuery.asked
    /\ \E a \in getPositionAt(pathQuery.t),
          b \in getPositionAt(pathQuery.t + ProgressDen) :
          pathQuery' = [t |-> pathQuery.t, asked |-> TRUE, at |-> a,
                        atNext |-> b]
    /\ lastEvent' = "getPositionAt"
    /\ UNCHANGED <<appVars, smVars, vehicle, hostVars, lastDelta, prevSpeed,
                   distance, frameLog, atStop, stopTime, loadVars, particles,
                   material, rig>>

\* getTangentAt(t) and getTangentAt(t + 1) for the drawn t.
GetTangentAt ==
    /\ ~pathQuery.asked
    /\ \E a \in getTangentAt(pathQuery.t),
          b \in getTangentAt(pathQuery.t + ProgressDen) :
          pathQuery' = [t |-> pathQuery.t, asked |-> TRUE, at |-> a,
                        atNext |-> b]
    /\ lastEvent' = "getTangentAt"
    /\ UNCHANGED <<appVars, smVars, vehicle, hostVars, lastDelta, prevSpeed,
                   distance, frameLog, atStop, stopTime, loadVars, particles,
                   material, rig>>

NextTrack == GetPositionAt \/ GetTangentAt

SpecTrack == InitTrack /\ [][NextTrack]_vars

\* ------------------------------------------------- Effects.updateParticles
\* Math.random() is r / RandomDen for a drawn r in 0..RandomDen-1; particle
\* coordinates are whole scene units; deltaTime is in 1/DeltaDen s.
RandomDen == 2
DeltaDen == 4
spreadX == 50
spreadY == 30
spreadZ == 100
shiftZ == 50
respawnZ == 0 - 100
passZ == 10
speedNorm == 50
zScale == 100
velocitySpread == 2
velocityBase == 1

RandomDraws == 0..(RandomDen - 1)

\* (Math.random() - 0.5) * spread
centred(r, spread) == ((2 * r - RandomDen) * spread) \div (2 * RandomDen)

\* One particle of createParticleSystem(), from four random draws.
newParticle(rx, ry, rz, rv) ==
    [x |-> centred(rx, spreadX), y |-> centred(ry, spreadY),
     z |-> centred(rz, spreadZ) - shiftZ,
     velocity |-> (rv * velocitySpread) \div RandomDen + velocityBase]

\* The loop body of updateParticles for one particle: advance z by
\* velocity * (speed / 50) * deltaTime * 100, then reset a particle that passed
\* z = 10 to a random x, y at z = -100.
moved(q, speed, deltaTime) ==
    q.z + (q.velocity * speed * deltaTime * zScale) \div (speedNorm * DeltaDen)

updateParticleNoReset(q, speed, deltaTime, rx, ry) ==
    [q EXCEPT !.z = moved(q, speed, deltaTime)]

updateParticle(q, speed, deltaTime, rx, ry) ==
    IF moved(q, speed, deltaTime) > passZ
    THEN [q EXCEPT !.x = centred(rx, spreadX), !.y = centred(ry, spreadY),
                   !.z = respawnZ]
    ELSE [q EXCEPT !.z = moved(q, speed, deltaTime)]

\* The pools updateParticles can leave: one pair of draws per reset particle.
RECURSIVE updateParticles(_, _, _, _)
updateParticles(pool, speed, deltaTime, n) ==
    IF n = 0 THEN {<<>>}
    ELSE LET draws == IF moved(pool[n], speed, deltaTime) > passZ
                      THEN RandomDraws \X RandomDraws ELSE {<<0, 0>>}
         IN  {Append(rest, updateParticle(pool[n], speed, deltaTime,
                                          d[1], d[2])) :
                rest \in updateParticles(pool, speed, deltaTime, n - 1),
                d \in draws}

\* particleSystem.material.opacity, in hundredths
OpacityDen == 100
initialOpacity == 60
opacityCap == 80
opacityGain == 50

\* The PointsMaterial of createParticleSystem(); `speed` is the speed of the
\* latest updateParticles call.
newMaterial == [opacity |-> initialOpacity, speed |-> 0]

\* Math.min(0.8, speedFactor * 0.5) with speedFactor = speed / 50
materialOpacityUncapped(speed) == (speed * opacityGain) \div speedNorm

materialOpacity(speed) ==
    Min(opacityCap, (speed * opacityGain) \div speedNorm)

\* speeds in km/h handed to update()
ParticleSpeeds == {0, 110, maxSpeed}

\* frame times handed to update(), in 1/DeltaDen s
ParticleDeltas == {0, 1}

\* speeds handed to update() with deltaTime 0 only
SlowSpeeds == {1, 30, 79, 80, 81}

EffectsInputs ==
    (ParticleSpeeds \X ParticleDeltas) \cup (SlowSpeeds \X {0})

InitEffects ==
    /\ InitApp
    /\ pathQuery = NoQuery
    /\ particles \in [1..MaxParticles ->
                        {newParticle(rx, ry, rz, rv) :
                            rx \in RandomDraws, ry \in RandomDraws,
                            rz \in RandomDraws, rv \in RandomDraws}]
    /\ material = newMaterial
    /\ rig = NoRig

UpdateParticles(speed, deltaTime) ==
    /\ particles' \in updateParticles(particles, speed, deltaTime,
                                      Len(particles))
    /\ lastEvent' =
         IF \E i \in 1..Len(particles) :
                moved(particles[i], speed, deltaTime) > passZ
         THEN "particlesReset" ELSE "particles"
    /\ lastDelta' = deltaTime
    /\ material' = [opacity |-> materialOpacity(speed), speed |-> speed]
    /\ UNCHANGED <<appVars, smVars, vehicle, hostVars, prevSpeed, distance,
                   frameLog, atStop, stopTime, loadVars, pathQuery, rig>>

NextEffects ==
    \E speed \in ParticleSpeeds, deltaTime \in ParticleDeltas :
        UpdateParticles(speed, deltaTime)

SpecEffects == InitEffects /\ [][NextEffects]_vars

\* updateParticles over the wider range of speeds, on a pool of one particle.
InitOpacity ==
    /\ InitApp
    /\ pathQuery = NoQuery
    /\ particles \in [1..1 -> {newParticle(rx, ry, rz, rv) :
                                 rx \in RandomDraws, ry \in RandomDraws,
                                 rz \in RandomDraws, rv \in RandomDraws}]
    /\ material = newMaterial
    /\ rig = NoRig

NextOpacity ==
    \E input \in EffectsInputs : UpdateParticles(input[1], input[2])

SpecOpacity == InitOpacity /\ [][NextOpacity]_vars

\* --------------------------------- vehicle heading and SceneManager.updateCamera
\* Angles are whole quarter turns (q stands for q * PI / 2), directions are
\* <<x, z>> pairs, the camera offsets are tenths of a scene unit.
LengthDen == 10
cameraOffsetX == 0 - 5
cameraOffsetY == 14
cameraOffsetZ == 3
lookDistance == 30
halfTurn == 2

cosQ(q) == <<1, 0, 0 - 1, 0>>[(q % 4) + 1]

sinQ(q) == <<0, 1, 0, 0 - 1>>[(q % 4) + 1]

\* Math.atan2(z, x) of an axis direction, in (-PI, PI].
atan2Q(z, x) ==
    IF x = 1 THEN 0 ELSE IF z = 1 THEN 1 ELSE IF x = 0 - 1 THEN 2 ELSE 0 - 1

Tangents == {<<1, 0>>, <<0, 1>>, <<0 - 1, 0>>, <<0, 0 - 1>>}

\* rotation.y set by updatePosition (js/vehicle.js) from the tangent, and
\* the variant of the other vehicle source (unnamed/part_001).
headingAngleOther(tangent) == atan2Q(0 - tangent[2], tangent[1])

headingAngle(tangent) == atan2Q(tangent[2], tangent[1]) + halfTurn

\* World direction of the local +X axis (the vehicle's front) of an object
\* with rotation.y = q: (cos, 0, -sin).
frontAxis(q) == <<cosQ(q), 0 - sinQ(q)>>

\* World offset of the local point <<x, z>> of an object with rotation.y = q.
localToWorld(x, z, q) ==
    <<x * cosQ(q) + z * sinQ(q), z * cosQ(q) - x * sinQ(q)>>

\* Camera coordinates are in units of 1/(LengthDen * ShakeDen): the offsets
\* of updateCamera are tenths, the shake of Effects.update needs 1/4000.
ShakeDen == 400
shakeThreshold == 60
shakeDivisor == 1000
cameraStartY == 15

Tenth == ShakeDen

Unit == LengthDen * ShakeDen

\* The camera after the constructor and setupDriverCamera(): at (0, 1.5, 0),
\* looking down -Z; `up` is whatever was left in it, upAtLookAt is camera.up
\* as the latest lookAt call found it (zero vector: no call yet).
Ups == {<<0, 1, 0>>, <<1, 0, 0>>, <<0, 0 - 1, 0>>}

newCamera(up) ==
    [position |-> <<0, cameraStartY * Tenth, 0>>, up |-> up,
     lookAt |-> <<0, cameraStartY * Tenth, 0 - Unit>>,
     upAtLookAt |-> <<0, 0, 0>>]

\* updateCamera(): position from the vehicle pose, up.set(0, 1, 0), lookAt.
updateCameraKeepsUp(cam, position, q) ==
    LET rotatedX == cameraOffsetX * cosQ(q) - cameraOffsetZ * sinQ(q)
        rotatedZ == cameraOffsetX * sinQ(q) + cameraOffsetZ * cosQ(q)
    IN  [position |-> <<position[1] + rotatedX * Tenth, cameraOffsetY * Tenth,
                        position[2] + rotatedZ * Tenth>>,
         up |-> cam.up,
         lookAt |-> <<position[1] + cosQ(q) * lookDistance * Unit,
                      cameraOffsetY * Tenth,
                      position[2] + sinQ(q) * lookDistance * Unit>>,
         upAtLookAt |-> cam.up]

updateCamera(cam, position, q) ==
    LET rotatedX == cameraOffsetX * cosQ(q) - cameraOffsetZ * sinQ(q)
        rotatedZ == cameraOffsetX * sinQ(q) + cameraOffsetZ * cosQ(q)
        up == <<0, 1, 0>>
    IN  [position |-> <<position[1] + rotatedX * Tenth, cameraOffsetY * Tenth,
                        position[2] + rotatedZ * Tenth>>,
         up |-> up,
         lookAt |-> <<position[1] + cosQ(q) * lookDistance * Unit,
                      cameraOffsetY * Tenth,
                      position[2] + sinQ(q) * lookDistance * Unit>>,
         upAtLookAt |-> up]

\* (speed - 60) / 1000 scene units
shakeIntensity(speed) == ((speed - shakeThreshold) * Unit) \div shakeDivisor

\* addCameraShake(intensity): x and y move by (Math.random() - 0.5) * intensity.
addCameraShake(cam, intensity, rx, ry) ==
    [cam EXCEPT !.position =
        <<cam.position[1] + centred(rx, intensity),
          cam.position[2] + centred(ry, intensity), cam.position[3]>>]

\* The camera part of Effects.update(speed, deltaTime): shake above 60 km/h.
effectsUpdateAlways(cam, speed, rx, ry) ==
    addCameraShake(cam, shakeIntensity(speed), rx, ry)

effectsUpdate(cam, speed, rx, ry) ==
    IF speed > shakeThreshold
    THEN addCameraShake(cam, shakeIntensity(speed), rx, ry)
    ELSE cam

\* speeds in km/h handed to update()
ShakeSpeeds == {0, shakeThreshold, maxSpeed}

Poses ==
    {[tangent |-> d, position |-> <<x * Tenth, z * Tenth>>] :
        d \in Tangents, x \in -MaxCoord..MaxCoord, z \in -MaxCoord..MaxCoord}

InitRig ==
    /\ InitApp
    /\ pathQuery = NoQuery
    /\ particles = <<>>
    /\ material = NoMaterial
    /\ rig \in {[built |-> TRUE, stage |-> "track", tangent |-> pose.tangent,
                  position |-> pose.position, rotationY |-> 0,
                  camera |-> newCamera(up), speed |-> 0] :
                   pose \in Poses, up \in Ups}

\* The placement part of updatePosition: position.copy(), rotation.y.
PlaceVehicle ==
    /\ rig.stage = "track"
    /\ rig' = [rig EXCEPT !.stage = "placed",
                          !.rotationY = headingAngle(rig.tangent)]
    /\ lastEvent' = "updatePosition"
    /\ UNCHANGED <<appVars, smVars, vehicle, hostVars, lastDelta, prevSpeed,
                   distance, frameLog, atStop, stopTime, loadVars, pathQuery,
                   particles, material>>

UpdateCamera ==
    /\ rig.stage = "placed"
    /\ rig' = [rig EXCEPT !.stage = "camera",
                          !.camera = updateCamera(rig.camera, rig.position,
                                                  rig.rotationY)]
    /\ lastEvent' = "updateCamera"
    /\ UNCHANGED <<appVars, smVars, vehicle, hostVars, lastDelta, prevSpeed,
                   distance, frameLog, atStop, stopTime, loadVars, pathQuery,
                   particles, material>>

EffectsUpdate(speed, rx, ry) ==
    /\ rig.stage = "camera"
    /\ rig' = [rig EXCEPT !.stage = "effects", !.speed = speed,
                          !.camera = effectsUpdate(rig.camera, speed, rx, ry)]
    /\ lastEvent' = "effects"
    /\ UNCHANGED <<appVars, smVars, vehicle, hostVars, lastDelta, prevSpeed,
                   distance, frameLog, atStop, stopTime, loadVars, pathQuery,
                   particles, material>>

\* The next frame finds the vehicle at another point of the track.
NextPose(pose) ==
    /\ rig.stage = "effects"
    /\ rig' = [rig EXCEPT !.stage = "track", !.tangent = pose.tangent,
                          !.position = pose.position]
    /\ lastEvent' = "frame"
    /\ UNCHANGED <<appVars, smVars, vehicle, hostVars, lastDelta, prevSpeed,
                   distance, frameLog, atStop, stopTime, loadVars, pathQuery,
                   particles, material>>

NextRig ==
    \/ PlaceVehicle
    \/ UpdateCamera
    \/ \E speed \in ShakeSpeeds, rx \in RandomDraws, ry \in RandomDraws :
         EffectsUpdate(speed, rx, ry)
    \/ \E pose \in Poses : NextPose(pose)

SpecRig == InitRig /\ [][NextRig]_vars

\* ================================================================ claims
\* C1: over any sequence of updatePosition calls with deltaTime >= 0,
\* currentSpeed never decreases from one frame to the next, never exceeds
\* maxSpeed, and once equal to maxSpeed stays equal to maxSpeed.
C1_SpeedMonotoneCapped ==
    /\ [](currentSpeed <= maxSpeedUnits)
    /\ [][/\ currentSpeed' >= currentSpeed
          /\ currentSpeed = maxSpeedUnits => currentSpeed' = maxSpeedUnits]_vars

C1_Witness ==
    /\ lastEvent = "frame"
    /\ prevSpeed = maxSpeedUnits
    /\ currentSpeed = maxSpeedUnits

\* C2 (as claimed): after every updatePosition call, for any deltaTime >= 0,
\* the stored trackProgress lies in [0, 1).
C2_ProgressInUnitInterval ==
    0 <= trackProgress /\ trackProgress < ProgressDen

\* C3 (as claimed): each frame's speed update is
\* speed' = min(maxSpeed, speed + acceleration * deltaTime).
C3_SpeedScaledByDelta ==
    [][currentSpeed' =
         Min(maxSpeedUnits,
             currentSpeed + acceleration * TickSeconds * lastDelta')]_vars

\* C3 (amended): each frame's speed update is
\* speed' = min(maxSpeed, speed + acceleration), a fixed step per frame
\* whatever the frame's deltaTime.
C3_SpeedStepPerFrame ==
    [][currentSpeed' = Min(maxSpeedUnits, currentSpeed + acceleration)]_vars

C3_Witness ==
    /\ lastEvent = "frame"
    /\ lastDelta = MaxDelta
    /\ currentSpeed = prevSpeed + acceleration
    /\ currentSpeed < maxSpeedUnits

\* C4 (as claimed): after any sequence of frames trackProgress equals the sum
\* of the per-frame increments currentSpeed_i / 3600 * dt_i * 2, modulo 1.
C4_ProgressIsSumModOne ==
    trackProgress = distance % ProgressDen

\* C5 (as claimed): under any interleaving of Start, Stop, Escape, hide/show
\* and display refreshes at most one animate callback is pending, so one
\* display refresh runs updatePosition once.
C5_SingleAnimateCallback ==
    pending <= 1

\* C6 (as claimed): Start after a Stop resumes from the trackProgress and
\* currentSpeed committed before the Stop.
C6_ResumesAfterStop ==
    (lastEvent = "startClick" /\ delayPending /\ atStop # NoVehicle)
        => vehicle = atStop

\* C6 (amended): Start after a Stop restarts from trackProgress = 0 and
\* currentSpeed = 0; the state committed before the Stop is discarded.
C6_RestartsFromZero ==
    (lastEvent = "startClick" /\ delayPending)
        => (vehicle # NoVehicle /\ trackProgress = 0 /\ currentSpeed = 0)

C6_Witness ==
    /\ lastEvent = "startClick"
    /\ delayPending
    /\ atStop # NoVehicle
    /\ atStop.currentSpeed > 0
    /\ currentSpeed = 0

\* C7: after every successful Start, the first frame (the one start() runs)
\* advances the motion state from trackProgress = 0 and currentSpeed = 0.
C7_FirstFrameFromZero ==
    [][(delayPending /\ ~delayPending')
         => /\ vehicle = NewVehicle
            /\ vehicle' = updatePosition(NewVehicle, lastDelta')
            /\ prevSpeed' = 0]_vars

C7_Witness ==
    /\ lastEvent = "delay"
    /\ isPlaying
    /\ atStop # NoVehicle
    /\ atStop.currentSpeed > acceleration
    /\ currentSpeed = acceleration
    /\ trackProgress = 0

\* C8 (as claimed): in every reachable state in which the page is hidden the
\* frame loop is not running.
C8_HiddenImpliesNotRunning ==
    hidden => ~isRunning

\* C9: when the tab is shown again while playing, the frame run by start()
\* has deltaTime 0, so the time spent hidden is not added to trackProgress,
\* and after a pause (the hide called stop()) it continues from the state
\* committed at the hide.
C9_ResumeWithoutCatchUp ==
    [][(hidden /\ ~hidden' /\ isPlaying)
         => /\ isRunning'
            /\ lastDelta' = 0
            /\ vehicle' = updatePosition(vehicle, 0)
            /\ ~isRunning => vehicle = atStop]_vars

C9_Witness ==
    /\ lastEvent = "show"
    /\ isPlaying
    /\ isRunning
    /\ now > stopTime
    /\ lastDelta = 0
    /\ prevSpeed > 0
    /\ currentSpeed = prevSpeed + acceleration

\* C10: after stop() and until the next start(), a display refresh runs the
\* pending animate callbacks without any frame step (no update, no render)
\* and without requesting another callback, so eventually no callback is
\* pending, and the motion state stays as it was.
C10_StopHaltsLoop ==
    /\ [][(~isRunning /\ lastEvent' = "frame")
            => /\ frameLog' = <<>>
               /\ pending' = 0
               /\ vehicle' = vehicle]_vars
    /\ [][(~isRunning /\ ~isRunning' /\ lastEvent' # "startClick")
            => vehicle' = vehicle]_vars
    /\ (~isRunning /\ pending > 0) ~> (pending = 0 \/ isRunning)

C10_Witness ==
    /\ lastEvent = "frame"
    /\ ~isRunning
    /\ pending = 0
    /\ frameLog = <<>>
    /\ atStop # NoVehicle
    /\ vehicle = atStop

\* C11 (as claimed): when a construction step of load(), or the constructor of
\* SceneManager, fails, onStartClick ends with the alert shown, the loading
\* screen hidden, the start screen shown, isPlaying false, isRunning false and
\* no animate callback pending.
C11_FailedStartNothingPending ==
    (lastEvent = "startClick" /\ lastLoad.result # "ok")
        => /\ lastLoad.alert
           /\ loadingScreenHidden /\ ~startScreenHidden
           /\ ~isPlaying /\ ~isRunning
           /\ pending = 0

\* C11 (amended): when a construction step of load(), or the constructor of
\* SceneManager, fails, onStartClick ends with the alert shown, the loading
\* screen hidden, the start screen shown, isPlaying false and isRunning false;
\* an animate callback still pending from an earlier run returns without
\* running a frame.
C11_FailedStartReturnsToStart ==
    /\ []((lastEvent = "startClick" /\ lastLoad.result # "ok")
            => /\ lastLoad.alert
               /\ loadingScreenHidden /\ ~startScreenHidden
               /\ ~isPlaying /\ ~isRunning /\ ~delayPending)
    /\ [][(lastLoad.result \notin {"ok", "none"} /\ lastEvent' = "frame")
            => frameLog' = <<>> /\ vehicle' = vehicle]_vars

C11_Witness ==
    /\ lastEvent = "frame"
    /\ lastLoad.result = "effects"
    /\ lastLoad.alert
    /\ ~startScreenHidden
    /\ frameLog = <<>>
    /\ vehicle = NewVehicle
    /\ atStop # NoVehicle

\* C12: whatever optional library is missing (EffectComposer, UnrealBloomPass,
\* mergeGeometries absent or throwing), a load() in which no construction
\* step throws returns true and creates the lane markings exactly once,
\* merged or individual; a frame renders through renderer.render while there
\* is no composer.
C12_OptionalEnhancements ==
    /\ [](/\ lastLoad.fault = "none" => lastLoad.result \in {"ok", "none"}
          /\ lastLoad.result = "ok"
               => lastLoad.lanes \in {{"merged"}, {"individual"}})
    /\ [][(frameLog' # <<>> /\ lastEvent' \in {"frame", "delay", "show"}
             /\ ~composer)
            => frameLog'[Len(frameLog')] = "renderer.render"]_vars

C12_Witness ==
    /\ lastEvent = "frame"
    /\ lastLoad.result = "ok"
    /\ ~composer
    /\ lastLoad.lanes = {"individual"}
    /\ isRunning
    /\ frameLog # <<>>
    /\ frameLog[Len(frameLog)] = "renderer.render"

\* C13 (as claimed): after a Stop (button or Escape) every object built by
\* the preceding load() has been disposed.
C13_StopDisposes ==
    (lastEvent \in {"stopClick", "escape"}) => live = {}

\* C14: wherever the Stop button can be clicked, pressing Escape leads to the
\* state a click on Stop leads to (loop halted, isPlaying false, game
\* container hidden, start screen shown); elsewhere Escape changes nothing.
C14_EscapeEqualsStop ==
    /\ [][(lastEvent' = "escape" /\ ~gameContainerHidden)
            => /\ onStopClick
               /\ ~isRunning' /\ ~isPlaying'
               /\ gameContainerHidden' /\ ~startScreenHidden']_vars
    /\ [][(lastEvent' = "escape" /\ gameContainerHidden)
            => UNCHANGED <<appVars, smVars, vehicle>>]_vars

C14_Witness ==
    /\ lastEvent = "escape"
    /\ ~isPlaying /\ ~isRunning
    /\ gameContainerHidden /\ ~startScreenHidden
    /\ pending > 0
    /\ frameLog # <<>>
    /\ stopTime = now /\ now > 0
    /\ atStop = vehicle /\ vehicle # NoVehicle

\* C15: start() is called only after load() returned true and the delay
\* elapsed; the loop runs, and isPlaying holds, only with a completely
\* constructed scene; isPlaying becomes true only in the step that started
\* the loop.
C15_StartOrder ==
    /\ []((isRunning \/ isPlaying)
            => /\ lastLoad.result = "ok"
               /\ ~delayPending
               /\ canUpdate(vehicle, track))
    /\ [][(lastEvent' = "delay")
            => /\ delayPending /\ lastLoad.result = "ok"
               /\ ~isRunning /\ isRunning' /\ isPlaying']_vars
    /\ [][(~isPlaying /\ isPlaying')
            => lastEvent' = "delay" /\ isRunning']_vars
    /\ [][(frameLog' # frameLog /\ frameLog' # <<>>)
            => lastLoad.result = "ok" /\ ~delayPending']_vars

C15_Witness ==
    /\ lastEvent = "delay"
    /\ lastLoad.result = "ok"
    /\ isPlaying /\ isRunning
    /\ ~gameContainerHidden
    /\ frameLog # <<>>
    /\ currentSpeed = acceleration

\* C16 (as claimed): getPositionAt and getTangentAt are defined for every
\* real t and periodic with period 1: the value at t + 1 is the value at t,
\* also for t < 0 and t >= 1.
C16_TrackPeriodic ==
    pathQuery.asked
        => /\ pathQuery.at # NoPoint
           /\ pathQuery.atNext # NoPoint
           /\ pathQuery.at = pathQuery.atNext

\* C17: after every updateParticles(speed, deltaTime) with speed >= 0 and
\* deltaTime >= 0 every particle has z <= 10; a particle that was reset is
\* in the spawn volume (x in [-25, 25], y in [-15, 15], z = -100), any other
\* kept its x and y and did not move back; the pool keeps its particles and
\* every velocity is unchanged.
C17_ParticlesRecycled ==
    /\ [](/\ Len(particles) = MaxParticles
          /\ \A i \in 1..Len(particles) : particles[i].z <= passZ)
    /\ [][\A i \in 1..Len(particles) :
            /\ particles'[i].velocity = particles[i].velocity
            /\ \/ /\ particles'[i].x = particles[i].x
                  /\ particles'[i].y = particles[i].y
                  /\ particles'[i].z >= particles[i].z
               \/ /\ particles'[i].z = respawnZ
                  /\ 2 * particles'[i].x \in (0 - spreadX)..spreadX
                  /\ 2 * particles'[i].y \in (0 - spreadY)..spreadY]_vars

C17_Witness ==
    /\ lastEvent = "particlesReset"
    /\ lastDelta > 0
    /\ particles[1].z = passZ
    /\ particles[2].z = respawnZ

\* C19 (as claimed): after updatePosition the vehicle's front axis (local +X
\* turned by rotation.y) points along the path tangent, neither reversed nor
\* reflected.
C19_HeadingFollowsTangent ==
    rig.stage \in {"placed", "camera", "effects"}
        => frontAxis(rig.rotationY) = rig.tangent

\* C20 (as claimed): updateCamera puts the camera at the vehicle position
\* plus the local offset (-0.5, 1.4, 0.3) turned by the vehicle's rotation.y,
\* and aims it at the vehicle position plus 30 times the world direction of
\* the vehicle's front axis, at height position.y + 1.4.
C20_CameraFollowsFrontAxis ==
    rig.stage = "camera"
        => LET off == localToWorld(cameraOffsetX, cameraOffsetZ, rig.rotationY)
               fwd == frontAxis(rig.rotationY)
           IN  /\ rig.camera.position =
                    <<rig.position[1] + off[1] * Tenth, cameraOffsetY * Tenth,
                      rig.position[2] + off[2] * Tenth>>
               /\ rig.camera.lookAt =
                    <<rig.position[1] + fwd[1] * lookDistance * Unit,
                      cameraOffsetY * Tenth,
                      rig.position[2] + fwd[2] * lookDistance * Unit>>

\* C21: in every frame in which updateCamera calls camera.lookAt, camera.up
\* is (0, 1, 0) at the call, whatever the camera held before.
C21_UpBeforeLookAt ==
    [][(rig'.stage = "camera" /\ rig.stage = "placed")
         => /\ rig'.camera.upAtLookAt = <<0, 1, 0>>
            /\ rig'.camera.up = <<0, 1, 0>>]_vars

C21_Witness ==
    /\ rig.stage = "camera"
    /\ lastEvent = "updateCamera"
    /\ rig.camera.upAtLookAt = <<0, 1, 0>>
    /\ rig.speed = 0
    /\ rig.rotationY = halfTurn

\* C23: camera shake is applied only when speed > 60, with intensity
\* (speed - 60) / 1000, and does not accumulate: after Effects.update the
\* camera's x and y are within intensity / 2 of the pose updateCamera
\* computes from the vehicle in that frame, its z is that pose's z, and at
\* speed <= 60 the camera is exactly that pose.
C23_ShakeBoundedFresh ==
    rig.stage = "effects"
        => LET pose == updateCamera(rig.camera, rig.position,
                                    rig.rotationY).position
               dx == rig.camera.position[1] - pose[1]
               dy == rig.camera.position[2] - pose[2]
               half == ((rig.speed - shakeThreshold) * Unit)
                           \div (2 * shakeDivisor)
           IN  /\ rig.camera.position[3] = pose[3]
               /\ rig.speed <= shakeThreshold => dx = 0 /\ dy = 0
               /\ rig.speed > shakeThreshold
                    => /\ 0 - half <= dx /\ dx <= half
                       /\ 0 - half <= dy /\ dy <= half

C23_Witness ==
    /\ rig.stage = "effects"
    /\ lastEvent = "effects"
    /\ rig.speed = maxSpeed
    /\ rig.camera.position[1] # updateCamera(rig.camera, rig.position,
                                              rig.rotationY).position[1]
    /\ rig.camera.upAtLookAt = <<0, 1, 0>>

\* C22: within every executed animate frame the steps run in the order
\* updatePosition, updateCamera, Effects.update, Environment.update, render,
\* each exactly once, and the frames run by one refresh follow one another:
\* a frame's first step comes after the previous frame's render.
C22_FrameStepOrder ==
    /\ [](LET order == <<"updatePosition", "updateCamera", "effects",
                         "environment">>
          IN  /\ Len(frameLog) % 5 = 0
              /\ \A i \in 1..Len(frameLog) :
                    IF i % 5 = 0
                    THEN frameLog[i] \in {"composer.render", "renderer.render"}
                    ELSE frameLog[i] = order[i % 5])
    /\ [][(lastEvent' = "frame" /\ isRunning)
            => frameLog' # <<>> /\ Len(frameLog') = 5 * pending]_vars
    /\ [][(lastEvent' \in {"delay", "show"} /\ isRunning')
            => Len(frameLog') = 5]_vars

C22_Witness ==
    /\ lastEvent = "frame"
    /\ isRunning
    /\ pending = 2
    /\ Len(frameLog) = 10
    /\ frameLog[5] = "composer.render"
    /\ frameLog[6] = "updatePosition"

\* C24: after every updateParticles(speed, deltaTime) the particle
\* material's opacity is min(0.8, 0.5 * speed / 50): 0 at speed 0, speed / 100
\* below 80 km/h, 0.8 from 80 km/h on, never above 0.8, and not lower after a
\* call with a higher speed than after a call with a lower one.
C24_OpacityFollowsSpeed ==
    /\ [](lastEvent \in {"particles", "particlesReset"}
            => /\ material.opacity >= 0
               /\ material.opacity <= opacityCap
               /\ material.speed = 0 => material.opacity = 0
               /\ material.speed < 80
                    => material.opacity * 100 = material.speed * OpacityDen
               /\ material.speed >= 80 => material.opacity = opacityCap)
    /\ [][(lastEvent \in {"particles", "particlesReset"}
            /\ material'.speed >= material.speed)
            => material'.opacity >= material.opacity]_vars

C24_Witness ==
    /\ lastEvent = "particles"
    /\ material.speed = 79
    /\ material.opacity = 79
    /\ lastDelta = 0
    /\ \E i \in 1..Len(particles) : particles[i].z = respawnZ

\* C25 (as claimed): at most one updateUI callback chain is active: under
\* any interleaving of Start, Stop, Escape, hide/show and display refreshes
\* at most one updateUI callback is requested, and a later Start never
\* leaves two.
C25_SingleUpdateUIChain ==
    uiPending <= 1

\* C26: under fair frame scheduling currentSpeed, starting at 0, goes up by
\* exactly one increment of 0.5 in every frame below maxSpeed, so it reaches
\* exactly 120 after finitely many frames, never exceeds 120, and equals 120
\* in every frame after that.
C26_ReachesMaxSpeed ==
    /\ [][currentSpeed < maxSpeedUnits
            => currentSpeed' = currentSpeed + acceleration]_vars
    /\ [](currentSpeed <= maxSpeed * SpeedDen)
    /\ <>[](currentSpeed = maxSpeed * SpeedDen)

C26_Witness ==
    /\ lastEvent = "frame"
    /\ prevSpeed = maxSpeedUnits - acceleration
    /\ currentSpeed = maxSpeed * SpeedDen
    /\ lastDelta > 0

\* C27: only Vehicle.updatePosition writes the motion state: a step that
\* changes trackProgress or currentSpeed of the Vehicle is a frame whose
\* first step is updatePosition (or a load(), which puts a new Vehicle in
\* place); stop(), the resize handler, updateUI callbacks, the passing of
\* time and the rest of the frame (camera, effects, environment, render)
\* leave them as they are, and start() itself contributes only the one
\* updatePosition of its animate() call.
C27_OnlyUpdatePositionMoves ==
    /\ [][vehicle' # vehicle
            => \/ lastEvent' = "startClick" /\ vehicle' = NewVehicle
               \/ /\ lastEvent' \in {"frame", "delay", "show"}
                  /\ isRunning'
                  /\ frameLog' # <<>>
                  /\ frameLog'[1] = "updatePosition"]_vars
    /\ [][lastEvent' \in {"stopClick", "escape", "hide", "resize", "unload",
                          "tick"}
            => vehicle' = vehicle]_vars
    /\ [][(lastEvent' = "frame" /\ ~isRunning)
            => vehicle' = vehicle /\ frameLog' = <<>>]_vars
    /\ [][(lastEvent' \in {"delay", "show"} /\ isRunning')
            => /\ vehicle'.currentSpeed
                    = Min(maxSpeedUnits, vehicle.currentSpeed + acceleration)
               /\ vehicle'.trackProgress = vehicle.trackProgress]_vars

C27_Witness ==
    /\ lastEvent = "resize"
    /\ isRunning
    /\ isPlaying
    /\ currentSpeed = 2 * acceleration
    /\ trackProgress > 0
    /\ frameLog # <<>>

C30_OneSetOfObjects ==
    [][lastEvent' = "startClick"
         => live \cap constructed(lastLoad'.result) = {}]_vars

\* C29 (as claimed): whenever no handler is executing exactly one of the
\* start screen, the loading screen and the game container is visible, and
\* the game container is visible exactly when isPlaying, after any sequence
\* of Start, Stop, Escape, load success, load failure and failure of
\* SceneManager.start.
C29_OneScreenVisible ==
    /\ \/ ~startScreenHidden /\ loadingScreenHidden /\ gameContainerHidden
       \/ startScreenHidden /\ ~loadingScreenHidden /\ gameContainerHidden
       \/ startScreenHidden /\ loadingScreenHidden /\ ~gameContainerHidden
    /\ ~gameContainerHidden <=> isPlaying

====
